---- MODULE Spec2Model ----
(***************************************************************************)
(* A model of packages/react/src/internal/FloatingMenu.js:                 *)
(*   - hasChangeInOffset and getFloatingPosition, the two module-private   *)
(*     pure functions, as operators over encoded JavaScript values;        *)
(*   - the FloatingMenu component (its instance fields, its state, the     *)
(*     React update queue and the resize subscription) as a state machine. *)
(*                                                                         *)
(* JavaScript values are records tagged by the field t.  Pixel inputs are  *)
(* whole numbers; getFloatingPosition halves sums of them, so the          *)
(* coordinates it returns are held in HALF pixels (Px(n) is n pixels).     *)
(***************************************************************************)
EXTENDS Integers, FiniteSets, Sequences, TLC

VARIABLES
  cmp,              \* hasChangeInOffset: the pair of arguments and the result
  calc,             \* getFloatingPosition: arguments and results of two calls
  props,            \* this.props
  floatingPosition, \* this.state.floatingPosition
  queued,           \* the state updates setState() has queued, oldest first
  menuBody,         \* this._menuBody
  placeInProgress,  \* this._placeInProgress
  hResize,          \* this.hResize: "none", "added" or "released"
  dom,              \* the layout the measurements read
  hist              \* what the last handler did (observation only)

vars == <<cmp, calc, props, floatingPosition, queued, menuBody,
          placeInProgress, hResize, dom, hist>>

(***************************************************************************)
(* Encoded JavaScript values                                               *)
(***************************************************************************)
Undefined == [t |-> "undefined"]
Null == [t |-> "null"]
TypeError == [t |-> "TypeError"]
Num(n) == [t |-> "number", v |-> n]
Str(s) == [t |-> "string", v |-> s]
Bool(b) == [t |-> "boolean", v |-> b]
Fn(id) == [t |-> "function", id |-> id]
\* An offset object; ref is the object's identity, top and left are its
\* properties (Undefined when the property is missing).
OffsetObj(ref, top, left) ==
  [t |-> "object", ref |-> ref, top |-> top, left |-> left]
\* A rectangle as getBoundingClientRect() returns it, or a partial one.
RectObj(left, top, right, bottom) ==
  [t |-> "object", left |-> left, top |-> top, right |-> right, bottom |-> bottom]

\* typeof v
TypeOf(v) == IF v.t = "null" THEN "object" ELSE v.t
\* Object(v) === v
IsObjectLike(v) == v.t \in {"object", "function"}
\* !v for the values an offset takes
Falsy(v) ==
  \/ v.t \in {"undefined", "null"}
  \/ (v.t = "number" /\ v.v = 0)
\* A default of a parameter or of a destructured property applies to
\* undefined alone.
OrDefault(v, d) == IF v = Undefined THEN d ELSE v
\* n pixels in half pixels
Px(n) == 2 * n

DIRECTION_LEFT == "left"
DIRECTION_TOP == "top"
DIRECTION_RIGHT == "right"
DIRECTION_BOTTOM == "bottom"
Directions == {DIRECTION_LEFT, DIRECTION_TOP, DIRECTION_RIGHT, DIRECTION_BOTTOM}

(***************************************************************************)
(* hasChangeInOffset (lines 59-72)                                         *)
(***************************************************************************)
\* The object the parameter defaults `= {}` create.
DefaultOffset == OffsetObj("default", Undefined, Undefined)

\* The comparison with the test for a function left out, so that two
\* function values are compared property by property.
hasChangeInOffset_NoFunctionTest(oldMenuOffset0, menuOffset0) ==
  LET oldMenuOffset == OrDefault(oldMenuOffset0, DefaultOffset)
      menuOffset == OrDefault(menuOffset0, DefaultOffset)
  IN  IF TypeOf(oldMenuOffset) # TypeOf(menuOffset)
        THEN Bool(TRUE)
        ELSE IF IsObjectLike(menuOffset)
               THEN IF oldMenuOffset = Null
                      THEN TypeError
                      ELSE IF menuOffset.t = "function"
                             THEN Bool(FALSE)
                             ELSE Bool(oldMenuOffset.top # menuOffset.top
                                       \/ oldMenuOffset.left # menuOffset.left)
               ELSE Bool(oldMenuOffset # menuOffset)

\* Returns Bool(TRUE) when the offset has changed, Bool(FALSE) when it has
\* not, TypeError when reading a property of null throws (line 67).
hasChangeInOffset(oldMenuOffset0, menuOffset0) ==
  LET oldMenuOffset == OrDefault(oldMenuOffset0, DefaultOffset)
      menuOffset == OrDefault(menuOffset0, DefaultOffset)
  IN  IF TypeOf(oldMenuOffset) # TypeOf(menuOffset)
        THEN Bool(TRUE)
        ELSE IF IsObjectLike(menuOffset) /\ TypeOf(menuOffset) # "function"
               THEN IF oldMenuOffset = Null
                      THEN TypeError
                      ELSE Bool(oldMenuOffset.top # menuOffset.top
                                \/ oldMenuOffset.left # menuOffset.left)
               ELSE Bool(oldMenuOffset # menuOffset)

(***************************************************************************)
(* getFloatingPosition (lines 87-166)                                      *)
(***************************************************************************)
\* `name = 0` in a destructuring pattern: the property, or 0 when missing.
PropOr0(v) == OrDefault(v, Num(0)).v

LeftAdjust == 9
RightAdjust == 3

Position(left, top) == [t |-> "position", left |-> left, top |-> top]

\* Lines 124-141: the branch taken when no container is passed.
PositionWithoutContainer(direction, refLeft, refTop, refRight, refBottom, width, height, left, top, scrollX, scrollY, viewportLeft, viewportTop) ==
  LET refCenterHorizontal == refLeft + refRight    \* Px((refLeft + refRight) / 2)
      refCenterVertical == refTop + refBottom      \* Px((refTop + refBottom) / 2)
  IN  CASE direction = DIRECTION_LEFT ->
             Position(Px(refLeft) - Px(width) + Px(scrollX) - Px(left) - Px(viewportLeft),
                      refCenterVertical - height + Px(scrollY) + Px(top) - Px(viewportTop))
        [] direction = DIRECTION_TOP ->
             Position(refCenterHorizontal - width + Px(scrollX) + Px(left) - Px(viewportLeft),
                      Px(refTop) - Px(height) + Px(scrollY) - Px(top) - Px(viewportTop))
        [] direction = DIRECTION_RIGHT ->
             Position(Px(refRight) + Px(scrollX) + Px(left) - Px(viewportLeft),
                      refCenterVertical - height + Px(scrollY) + Px(top) - Px(viewportTop))
        [] direction = DIRECTION_BOTTOM ->
             Position(refCenterHorizontal - width + Px(scrollX) + Px(left) - Px(viewportLeft),
                      Px(refBottom) + Px(scrollY) + Px(top) - Px(viewportTop))
        [] OTHER -> TypeError   \* {...}[direction] is undefined, calling it throws

\* The container branch with the offset subtracted from top for direction
\* left as well as for direction top.
PositionWithContainer_LeftSubtractsTop(direction, refLeft, refTop, refRight, refBottom, width, height, left, top, scrollX, scrollY, relativeDiff) ==
  LET refCenterHorizontal == refLeft + refRight
      refCenterVertical == refTop + refBottom
  IN  CASE direction = DIRECTION_LEFT ->
             Position(Px(refLeft) - Px(width) + Px(scrollX) - Px(left) - Px(relativeDiff.left),
                      refCenterVertical - height + Px(scrollY) - Px(top) - Px(LeftAdjust)
                        - Px(relativeDiff.top))
        [] direction = DIRECTION_TOP ->
             Position(refCenterHorizontal - width + Px(scrollX) + Px(left) - Px(relativeDiff.left),
                      Px(refTop) - Px(height) + Px(scrollY) - Px(top) - Px(relativeDiff.top))
        [] direction = DIRECTION_RIGHT ->
             Position(Px(refRight) + Px(scrollX) + Px(left) - Px(relativeDiff.left),
                      refCenterVertical - height + Px(scrollY) + Px(top) + Px(RightAdjust)
                        - Px(relativeDiff.top))
        [] direction = DIRECTION_BOTTOM ->
             Position(refCenterHorizontal - width + Px(scrollX) + Px(left) - Px(relativeDiff.left),
                      Px(refBottom) + Px(scrollY) + Px(top) - Px(relativeDiff.top))
        [] OTHER -> TypeError

\* Lines 143-164: the branch taken when a container is passed.
PositionWithContainer(direction, refLeft, refTop, refRight, refBottom, width, height, left, top, scrollX, scrollY, relativeDiff) ==
  LET refCenterHorizontal == refLeft + refRight
      refCenterVertical == refTop + refBottom
  IN  CASE direction = DIRECTION_LEFT ->
             Position(Px(refLeft) - Px(width) + Px(scrollX) - Px(left) - Px(relativeDiff.left),
                      refCenterVertical - height + Px(scrollY) + Px(top) - Px(LeftAdjust)
                        - Px(relativeDiff.top))
        [] direction = DIRECTION_TOP ->
             Position(refCenterHorizontal - width + Px(scrollX) + Px(left) - Px(relativeDiff.left),
                      Px(refTop) - Px(height) + Px(scrollY) - Px(top) - Px(relativeDiff.top))
        [] direction = DIRECTION_RIGHT ->
             Position(Px(refRight) + Px(scrollX) + Px(left) - Px(relativeDiff.left),
                      refCenterVertical - height + Px(scrollY) + Px(top) + Px(RightAdjust)
                        - Px(relativeDiff.top))
        [] direction = DIRECTION_BOTTOM ->
             Position(refCenterHorizontal - width + Px(scrollX) + Px(left) - Px(relativeDiff.left),
                      Px(refBottom) + Px(scrollY) + Px(top) - Px(relativeDiff.top))
        [] OTHER -> TypeError

\* The call getFloatingPosition(p): a Position in half pixels, or TypeError
\* when the call throws.  p.menuSize is {width, height}; the other fields
\* of p are encoded values, Undefined when the property is not passed.
getFloatingPosition(p) ==
  LET refPosition == OrDefault(p.refPosition,
                               RectObj(Undefined, Undefined, Undefined, Undefined))
      offset == OrDefault(p.offset, DefaultOffset)
      viewportOffset == OrDefault(p.viewportOffset, DefaultOffset)
      direction == OrDefault(p.direction, Str(DIRECTION_BOTTOM)).v
      scrollX == OrDefault(p.scrollX, Num(0)).v
      scrollY == OrDefault(p.scrollY, Num(0)).v
      container == p.container
  IN  IF refPosition = Null
        THEN TypeError                      \* line 97: destructuring null
        ELSE IF container \in {Undefined, Null}
          THEN TypeError                    \* line 104: container.position
          ELSE IF offset = Null \/ viewportOffset = Null
            THEN TypeError                  \* lines 115, 116: destructuring null
            ELSE
              LET relativeDiff ==
                    IF container.position # "static"
                      THEN [top |-> container.rect.top, left |-> container.rect.left]
                      ELSE [top |-> 0, left |-> 0]
                  refLeft == PropOr0(refPosition.left)
                  refTop == PropOr0(refPosition.top)
                  refRight == PropOr0(refPosition.right)
                  refBottom == PropOr0(refPosition.bottom)
                  width == p.menuSize.width
                  height == p.menuSize.height
                  top == PropOr0(offset.top)
                  left == PropOr0(offset.left)
                  viewportLeft == PropOr0(viewportOffset.left)
                  viewportTop == PropOr0(viewportOffset.top)
              IN  IF container \in {Undefined, Null}     \* line 123: !container
                    THEN PositionWithoutContainer(
                           direction, refLeft, refTop, refRight, refBottom, width,
                           height, left, top, scrollX, scrollY, viewportLeft, viewportTop)
                    ELSE PositionWithContainer(
                           direction, refLeft, refTop, refRight, refBottom, width,
                           height, left, top, scrollX, scrollY, relativeDiff)

(***************************************************************************)
(* Inputs of the two pure functions                                        *)
(***************************************************************************)
MaxOffset == 2    \* offset properties range over 0..MaxOffset
MaxScroll == 1    \* scroll positions range over 0..MaxScroll
MaxDelta == 1     \* a quantity is changed by -MaxDelta..MaxDelta, not by 0

OffsetProps == {Undefined} \cup {Num(n) : n \in 0..MaxOffset}
OffsetObjects(ref) == {OffsetObj(ref, top, left) : top \in OffsetProps, left \in OffsetProps}
\* What a caller may hand to hasChangeInOffset as the old value.
OldOffsetValues ==
  {Undefined, Null, Num(0), Num(1), Fn("f"), Fn("g")} \cup OffsetObjects("a")
\* The new value: another value, a fresh object, or the old value itself.
NewOffsetValues(old) ==
  {Undefined, Null, Num(0), Num(1), Fn("f"), Fn("g"), old} \cup OffsetObjects("b")

MenuSizes ==
  {[width |-> 40, height |-> 20], [width |-> 3, height |-> 5], [width |-> 0, height |-> 0]}
RefPositions ==
  { Undefined, Null,
    RectObj(Num(100), Num(50), Num(150), Num(80)),
    RectObj(Num(1), Num(2), Num(4), Num(7)),
    RectObj(Num(10), Num(20), Undefined, Undefined) }
CalcOffsets ==
  { Undefined, Null,
    OffsetObj("a", Undefined, Undefined),
    OffsetObj("a", Num(1), Undefined),
    OffsetObj("a", Num(MaxOffset), Num(1)) }
ViewportOffsets == {Undefined, OffsetObj("v", Num(8), Num(6))}
DirectionArgs == {Undefined} \cup {Str(d) : d \in Directions}
ScrollArgs == {Undefined} \cup {Num(n) : n \in 0..MaxScroll}
Container(left, top, position) ==
  [t |-> "object", rect |-> [left |-> left, top |-> top], position |-> position]
ContainerArgs ==
  { Undefined,
    Container(5, 7, "static"),
    Container(5, 7, "absolute"),
    Container(0, 0, "relative") }
Deltas == (-MaxDelta..MaxDelta) \ {0}

CalcArgs ==
  [menuSize : MenuSizes, refPosition : RefPositions, offset : CalcOffsets,
   viewportOffset : ViewportOffsets, direction : DirectionArgs,
   scrollX : ScrollArgs, scrollY : ScrollArgs, container : ContainerArgs]

NoResult == [t |-> "none"]
CmpIdle == [pc |-> "idle", old |-> Undefined, new |-> Undefined, ret |-> NoResult]
CalcIdle ==
  [pc |-> "idle", op |-> "none", delta |-> 0,
   args |-> [menuSize |-> [width |-> 0, height |-> 0], refPosition |-> Undefined,
             offset |-> Undefined, viewportOffset |-> Undefined,
             direction |-> Undefined, scrollX |-> Undefined, scrollY |-> Undefined,
             container |-> Undefined],
   ret |-> NoResult,
   prevArgs |-> [menuSize |-> [width |-> 0, height |-> 0], refPosition |-> Undefined,
                 offset |-> Undefined, viewportOffset |-> Undefined,
                 direction |-> Undefined, scrollX |-> Undefined, scrollY |-> Undefined,
                 container |-> Undefined],
   prevRet |-> NoResult]

(***************************************************************************)
(* The FloatingMenu component: props, layout and callbacks it is given     *)
(***************************************************************************)
\* defaultProps.menuOffset (line 227): one object shared by every render.
DefaultPropsOffset == OffsetObj("defaultProps", Undefined, Undefined)

\* The menuOffset callbacks a parent passes.  "byDirection" follows the
\* overflow menu's: an offset that depends on flipped for a menu above or
\* below the trigger, undefined when it cannot tell.  "fixed" ignores its
\* arguments.
MenuOffsetCallback(id, menuSize, menuDirection, triggerEl, flipped) ==
  IF id = "byDirection"
    THEN IF menuDirection \in {DIRECTION_TOP, DIRECTION_BOTTOM}
           THEN OffsetObj("result", Num(0), Num(IF flipped THEN 0 ELSE 1))
           ELSE Undefined
    ELSE OffsetObj("result", Num(1), Num(1))

\* What the parent may pass as menuOffset, menuDirection, flipped,
\* getViewport and onPlace.
MenuOffsetProps ==
  {Undefined, OffsetObj("a", Num(1), Num(MaxOffset)), Fn("byDirection")}
MenuDirectionProps == {Undefined, Str(DIRECTION_LEFT)}
ParentProps ==
  [menuOffset : MenuOffsetProps, menuDirection : MenuDirectionProps,
   flipped : BOOLEAN, getViewport : {Undefined, Fn("getViewport")},
   onPlace : {Undefined, Fn("onPlace")}]

\* React fills in defaultProps (lines 226-229) for the props left undefined.
WithDefaultProps(p) ==
  [p EXCEPT !.menuOffset = OrDefault(p.menuOffset, DefaultPropsOffset),
            !.menuDirection = OrDefault(p.menuDirection, Str(DIRECTION_BOTTOM))]

\* prevProps = {} (line 269): every property reads undefined.
EmptyProps ==
  [menuOffset |-> Undefined, menuDirection |-> Undefined, flipped |-> FALSE,
   getViewport |-> Undefined, onPlace |-> Undefined]

\* The layout the measurements of a pass read: the menu body's size, the
\* trigger's rectangle, the scroll position of the window and of the custom
\* viewport.
Layout(width, height, trigger, scroll) ==
  [menuSize |-> [width |-> width, height |-> height], trigger |-> trigger,
   scroll |-> scroll]
DomStates ==
  { Layout(0, 0, RectObj(Num(100), Num(50), Num(150), Num(80)), 0),
    Layout(40, 0, RectObj(Num(100), Num(50), Num(150), Num(80)), 0),
    Layout(40, 20, RectObj(Num(100), Num(50), Num(150), Num(80)), 0),
    Layout(40, 20, RectObj(Num(1), Num(2), Num(4), Num(7)), 1) }
\* getViewport(): the custom viewport element, its rectangle and scroll.
ViewportEl == [t |-> "element", id |-> "viewport"]
ViewportRect == RectObj(Num(6), Num(8), Num(60), Num(80))
\* this.props.target(): the element the menu is rendered into.
TargetContainer == Container(5, 7, "absolute")
MenuBodyEl == [t |-> "element", id |-> "menuBody"]

(***************************************************************************)
(* _updateMenuSize (lines 269-329)                                         *)
(***************************************************************************)
\* g && g()
CallGetViewport(g) == IF g = Undefined THEN Undefined ELSE ViewportEl

\* The pass without the early return of lines 286-290: it always measures.
NeedsUpdate_Always(prevProps, thisProps) == TRUE

\* Lines 286-290: whether the pass goes on to measure.
NeedsUpdate(prevProps, thisProps) ==
  \/ hasChangeInOffset(OrDefault(prevProps.menuOffset, DefaultOffset),
                       OrDefault(thisProps.menuOffset, DefaultOffset)) = Bool(TRUE)
  \/ prevProps.menuDirection # thisProps.menuDirection
  \/ CallGetViewport(prevProps.getViewport) # CallGetViewport(thisProps.getViewport)

\* Lines 295-298: the offset the pass uses.
ResolveOffset(thisProps, d) ==
  IF TypeOf(thisProps.menuOffset) # "function"
    THEN thisProps.menuOffset
    ELSE MenuOffsetCallback(thisProps.menuOffset.id, d.menuSize,
                            thisProps.menuDirection.v, d.trigger, thisProps.flipped)

\* The test of line 306 with the height left out.
ShouldSetState_WidthOnly(menuSize, offset) ==
  menuSize.width > 0 \/ Falsy(offset)

\* Line 306: whether the pass calls setState.
ShouldSetState(menuSize, offset) ==
  (menuSize.width > 0 /\ menuSize.height > 0) \/ Falsy(offset)

\* Lines 308-325: the arguments of the call of getFloatingPosition.
FloatingPositionArgs(thisProps, d) ==
  LET viewport == CallGetViewport(thisProps.getViewport)
  IN  [menuSize |-> d.menuSize,
       refPosition |-> d.trigger,
       direction |-> thisProps.menuDirection,
       offset |-> ResolveOffset(thisProps, d),
       viewportOffset |->
         IF viewport = Undefined
           THEN OffsetObj("viewportOffset", Undefined, Undefined)
           ELSE OffsetObj("viewportOffset", ViewportRect.top, ViewportRect.left),
       scrollX |-> Num(IF viewport = Undefined THEN d.scroll ELSE 0),
       scrollY |-> Num(IF viewport = Undefined THEN 0 ELSE d.scroll),
       container |-> TargetContainer]

\* One pass: what it did ("noBody", "unchanged", "skipped" or "setState")
\* and the update queue it leaves.
updateMenuSize(prevProps, thisProps, body, d, q) ==
  IF body = Null
    THEN [pass |-> "noBody", queued |-> q]
    ELSE IF ~NeedsUpdate(prevProps, thisProps)
      THEN [pass |-> "unchanged", queued |-> q]
      ELSE IF ShouldSetState(d.menuSize, ResolveOffset(thisProps, d))
        THEN [pass |-> "setState",
              queued |-> getFloatingPosition(FloatingPositionArgs(thisProps, d))]
        ELSE [pass |-> "skipped", queued |-> q]

(***************************************************************************)
(* The component's handlers                                                *)
(*                                                                         *)
(* React flushes a state update queued by setState() before anything else  *)
(* reaches the component: at the end of the commit whose ref callback or   *)
(* lifecycle method queued it, or inside setState() itself when the resize *)
(* callback queued it.  So while an update is queued, the only handlers    *)
(* that run are componentDidMount (the same commit as the first _menuRef)  *)
(* and the render that flushes the queue.                                  *)
(***************************************************************************)
Hist(event, pass, onPlace, placed, computed, renders, layouts) ==
  [event |-> event,        \* the handler that ran last
   pass |-> pass,          \* what its _updateMenuSize pass did, "none" without one
   onPlace |-> onPlace,    \* whether it called onPlace
   placed |-> placed,      \* calls of onPlace since the menu body was mounted (0, 1, many)
   computed |-> computed,  \* a position was computed since the menu body was mounted
   renders |-> renders,    \* renders by the parent so far
   layouts |-> layouts]    \* layout changes so far

MaxRenders == 2   \* the parent renders the component again at most MaxRenders times
MaxLayouts == 2   \* the layout changes at most MaxLayouts times

MountedProps == {WithDefaultProps(p) : p \in ParentProps}

ComponentInit ==
  /\ props \in MountedProps
  /\ floatingPosition = Undefined          \* line 239
  /\ queued = NoResult
  /\ menuBody = Null                       \* line 258
  /\ placeInProgress = FALSE               \* line 232
  /\ hResize = "none"
  /\ dom \in DomStates
  /\ hist = Hist("constructor", "none", FALSE, 0, FALSE, 0, 0)

\* The component is not part of the run: one fixed, never mounted instance.
ComponentIdle ==
  /\ props = WithDefaultProps(EmptyProps)
  /\ floatingPosition = Undefined
  /\ queued = NoResult
  /\ menuBody = Null
  /\ placeInProgress = FALSE
  /\ hResize = "none"
  /\ dom = Layout(0, 0, RectObj(Num(1), Num(2), Num(4), Num(7)), 0)
  /\ hist = Hist("constructor", "none", FALSE, 0, FALSE, 0, 0)

componentVars ==
  <<props, floatingPosition, queued, menuBody, placeInProgress, hResize, dom, hist>>

\* _menuRef(menuBody) with an element (lines 358-365).
MenuRefMount ==
  /\ menuBody = Null
  /\ hResize # "released"
  /\ queued = NoResult
  /\ LET r == updateMenuSize(EmptyProps, props, MenuBodyEl, dom, queued)
     IN  /\ placeInProgress' = TRUE
         /\ menuBody' = MenuBodyEl
         /\ queued' = r.queued
         /\ hist' = Hist("menuRef", r.pass, FALSE, 0, r.pass = "setState",
                         hist.renders, hist.layouts)
  /\ UNCHANGED <<cmp, calc, props, floatingPosition, hResize, dom>>

\* _menuRef(null) (lines 358-365): the menu body is being unmounted.
MenuRefUnmount ==
  /\ menuBody # Null
  /\ hResize # "none"
  /\ queued = NoResult
  /\ placeInProgress' = FALSE
  /\ menuBody' = Null
  /\ hist' = Hist("menuRefNull", "none", FALSE, hist.placed, hist.computed,
                  hist.renders, hist.layouts)
  /\ UNCHANGED <<cmp, calc, props, floatingPosition, queued, hResize, dom>>

\* componentDidMount (lines 335-339).
ComponentDidMount ==
  /\ hResize = "none"
  /\ hResize' = "added"
  /\ hist' = Hist("componentDidMount", "none", FALSE, hist.placed, hist.computed,
                  hist.renders, hist.layouts)
  /\ UNCHANGED <<cmp, calc, props, floatingPosition, queued, menuBody,
                 placeInProgress, dom>>

\* componentWillUnmount (lines 331-333).
ComponentWillUnmount ==
  /\ hResize = "added"
  /\ queued = NoResult
  /\ hResize' = "released"
  /\ hist' = Hist("componentWillUnmount", "none", FALSE, hist.placed, hist.computed,
                  hist.renders, hist.layouts)
  /\ UNCHANGED <<cmp, calc, props, floatingPosition, queued, menuBody,
                 placeInProgress, dom>>

\* The callback given to OptimizedResize.add (lines 336-338).
Resize ==
  /\ hResize = "added"
  /\ queued = NoResult
  /\ LET r == updateMenuSize(EmptyProps, props, menuBody, dom, queued)
     IN  /\ queued' = r.queued
         /\ hist' = Hist("resize", r.pass, FALSE, hist.placed,
                         hist.computed \/ r.pass = "setState",
                         hist.renders, hist.layouts)
  /\ UNCHANGED <<cmp, calc, props, floatingPosition, menuBody, placeInProgress,
                 hResize, dom>>

\* componentDidUpdate(prevProps) (lines 341-352), after a render that took
\* the props and the state `state` and emptied the update queue.
componentDidUpdate(event, prevProps, state, renders) ==
  LET r == updateMenuSize(prevProps, props', menuBody, dom, NoResult)
      place == /\ placeInProgress
               /\ ~Falsy(state)
               /\ TypeOf(props'.onPlace) = "function"
  IN  /\ queued' = r.queued
      /\ placeInProgress' = IF place THEN FALSE ELSE placeInProgress
      /\ hist' = Hist(event, r.pass, place,
                      IF place THEN (IF hist.placed = 0 THEN 1 ELSE 2) ELSE hist.placed,
                      hist.computed \/ r.pass = "setState",
                      renders, hist.layouts)

\* The parent renders the component again, with the same or with other
\* props.
ParentRender ==
  /\ hResize = "added"
  /\ queued = NoResult
  /\ hist.renders < MaxRenders
  /\ \E np \in ParentProps :
       /\ np.onPlace = props.onPlace
       /\ props' = WithDefaultProps(np)
       /\ floatingPosition' = floatingPosition
       /\ componentDidUpdate("parentRender", props, floatingPosition', hist.renders + 1)
  /\ UNCHANGED <<cmp, calc, menuBody, hResize, dom>>

\* React renders the component again for a state update setState() queued.
FlushState ==
  /\ hResize = "added"
  /\ queued # NoResult
  /\ props' = props
  /\ floatingPosition' = queued
  /\ componentDidUpdate("flushState", props, floatingPosition', hist.renders)
  /\ UNCHANGED <<cmp, calc, menuBody, hResize, dom>>

\* The layout changes: the menu body's size, the trigger's place, the scroll.
LayoutChange ==
  /\ hResize # "released"
  /\ queued = NoResult
  /\ hist.layouts < MaxLayouts
  /\ \E d \in DomStates : d # dom /\ dom' = d
  /\ hist' = Hist("layoutChange", "none", FALSE, hist.placed, hist.computed,
                  hist.renders, hist.layouts + 1)
  /\ UNCHANGED <<cmp, calc, props, floatingPosition, queued, menuBody,
                 placeInProgress, hResize>>

Init == cmp = CmpIdle /\ calc = CalcIdle /\ ComponentInit

Next ==
  \/ MenuRefMount
  \/ MenuRefUnmount
  \/ ComponentDidMount
  \/ ComponentWillUnmount
  \/ Resize
  \/ ParentRender
  \/ FlushState
  \/ LayoutChange

Spec == Init /\ [][Next]_vars

(***************************************************************************)
(* hasChangeInOffset on its own: the arguments are drawn, then it is       *)
(* called.                                                                 *)
(***************************************************************************)
CmpInit ==
  /\ \E old \in OldOffsetValues : \E new \in NewOffsetValues(old) :
       cmp = [pc |-> "args", old |-> old, new |-> new, ret |-> NoResult]
  /\ calc = CalcIdle
  /\ ComponentIdle

CompareOffsets ==
  /\ cmp.pc = "args"
  /\ cmp' = [cmp EXCEPT !.pc = "returned", !.ret = hasChangeInOffset(cmp.old, cmp.new)]
  /\ UNCHANGED <<calc, componentVars>>

SpecCmp == CmpInit /\ [][CompareOffsets]_vars

(***************************************************************************)
(* getFloatingPosition on its own: the arguments are drawn and it is       *)
(* called; then one argument is changed and it is called again, the first  *)
(* call's arguments and result kept for comparison.                        *)
(***************************************************************************)
CalcInit ==
  /\ cmp = CmpIdle
  /\ \E a \in CalcArgs :
       calc = [CalcIdle EXCEPT !.pc = "args", !.args = a, !.prevArgs = a]
  /\ ComponentIdle

CalcCall ==
  /\ calc.pc = "args"
  /\ calc' = [calc EXCEPT !.pc = "called", !.op = "call",
                          !.ret = getFloatingPosition(calc.args)]
  /\ UNCHANGED <<cmp, componentVars>>

\* The second call, with the arguments a.
CallAgain(op, delta, a) ==
  calc' = [pc |-> "again", op |-> op, delta |-> delta, args |-> a,
           ret |-> getFloatingPosition(a), prevArgs |-> calc.args,
           prevRet |-> calc.ret]

ChangeOffsetTop ==
  /\ calc.pc = "called"
  /\ calc.args.offset.t = "object"
  /\ \E D \in Deltas :
       CallAgain("offsetTop", D,
                 [calc.args EXCEPT !.offset.top = Num(PropOr0(calc.args.offset.top) + D)])
  /\ UNCHANGED <<cmp, componentVars>>

ChangeScrollX ==
  /\ calc.pc = "called"
  /\ \E D \in Deltas :
       CallAgain("scrollX", D,
                 [calc.args EXCEPT !.scrollX = Num(PropOr0(calc.args.scrollX) + D)])
  /\ UNCHANGED <<cmp, componentVars>>

ChangeScrollY ==
  /\ calc.pc = "called"
  /\ \E D \in Deltas :
       CallAgain("scrollY", D,
                 [calc.args EXCEPT !.scrollY = Num(PropOr0(calc.args.scrollY) + D)])
  /\ UNCHANGED <<cmp, componentVars>>

ChangeContainer ==
  /\ calc.pc = "called"
  /\ \E c \in ContainerArgs \cup {Container(1, 2, "static")} :
       /\ c # calc.args.container
       /\ CallAgain("container", 0, [calc.args EXCEPT !.container = c])
  /\ UNCHANGED <<cmp, componentVars>>

CalcNext ==
  \/ CalcCall
  \/ ChangeOffsetTop
  \/ ChangeScrollX
  \/ ChangeScrollY
  \/ ChangeContainer

SpecCalc == CalcInit /\ [][CalcNext]_vars

(***************************************************************************)
(* Properties of getFloatingPosition (checked under SpecCalc)              *)
(***************************************************************************)
DirectionOf(a) == OrDefault(a.direction, Str(DIRECTION_BOTTOM)).v
IsZeroOffset(o) ==
  \/ o = Undefined
  \/ (o.t = "object" /\ PropOr0(o.top) = 0 /\ PropOr0(o.left) = 0)
IsZeroScroll(x) == x = Undefined \/ x = Num(0)
\* No argument is null (null is not a missing argument: no default applies).
NoNullArgs(a) == a.refPosition # Null /\ a.offset # Null /\ a.viewportOffset # Null
\* The position flush against the trigger's edge on the side `direction`,
\* centred on the other axis, in half pixels.
FlushPosition(direction, ref, menuSize) ==
  LET refLeft == PropOr0(ref.left)
      refTop == PropOr0(ref.top)
      refRight == PropOr0(ref.right)
      refBottom == PropOr0(ref.bottom)
      centredLeft == refLeft + refRight - menuSize.width
      centredTop == refTop + refBottom - menuSize.height
  IN  CASE direction = DIRECTION_BOTTOM -> Position(centredLeft, Px(refBottom))
        [] direction = DIRECTION_TOP -> Position(centredLeft, Px(refTop - menuSize.height))
        [] direction = DIRECTION_RIGHT -> Position(Px(refRight), centredTop)
        [] direction = DIRECTION_LEFT -> Position(Px(refLeft - menuSize.width), centredTop)

\* C1: called with zero offset, zero scroll, no viewportOffset and no
\* container, getFloatingPosition returns the position flush against the
\* requested edge of the trigger and centred on the other axis; for the
\* trigger {100, 50, 150, 80}, a 40 x 20 menu and direction bottom that is
\* {left: 105, top: 80}.
C1_FlushWithoutContainer ==
  (/\ calc.pc = "called"
   /\ calc.args.container = Undefined
   /\ calc.args.viewportOffset = Undefined
   /\ IsZeroOffset(calc.args.offset)
   /\ IsZeroScroll(calc.args.scrollX) /\ IsZeroScroll(calc.args.scrollY)
   /\ calc.args.refPosition \notin {Undefined, Null})
  => /\ calc.ret = FlushPosition(DirectionOf(calc.args), calc.args.refPosition,
                                 calc.args.menuSize)
     /\ (/\ calc.args.refPosition = RectObj(Num(100), Num(50), Num(150), Num(80))
         /\ calc.args.menuSize = [width |-> 40, height |-> 20]
         /\ DirectionOf(calc.args) = DIRECTION_BOTTOM)
        => calc.ret = Position(Px(105), Px(80))

\* The sign the offset's top enters the returned top with, as C2 states it.
C2_StatedSign(direction) ==
  IF direction \in {DIRECTION_BOTTOM, DIRECTION_RIGHT} THEN 1 ELSE -1
\* The sign it enters with in every branch of lines 125-163.
OffsetTopSign(direction) == IF direction = DIRECTION_TOP THEN -1 ELSE 1

ZeroFilledRect(r) ==
  IF r = Undefined
    THEN RectObj(Num(0), Num(0), Num(0), Num(0))
    ELSE RectObj(OrDefault(r.left, Num(0)), OrDefault(r.top, Num(0)),
                 OrDefault(r.right, Num(0)), OrDefault(r.bottom, Num(0)))
ZeroFilledOffset(o) ==
  IF o = Undefined
    THEN OffsetObj("zero", Num(0), Num(0))
    ELSE [o EXCEPT !.top = OrDefault(o.top, Num(0)), !.left = OrDefault(o.left, Num(0))]
ZeroFilled(a) ==
  [a EXCEPT !.refPosition = ZeroFilledRect(a.refPosition),
            !.offset = ZeroFilledOffset(a.offset),
            !.viewportOffset = ZeroFilledOffset(a.viewportOffset),
            !.scrollX = OrDefault(a.scrollX, Num(0)),
            !.scrollY = OrDefault(a.scrollY, Num(0))]

\* C3: getFloatingPosition raises no error when refPosition, offset,
\* viewportOffset, scrollX, scrollY or container is absent or a property of a
\* rectangle or offset is missing: it returns the position computed with 0
\* for each missing quantity.
C3_NoErrorZeroDefaults ==
  (calc.pc = "called" /\ NoNullArgs(calc.args))
  => /\ calc.ret.t = "position"
     /\ calc.ret = getFloatingPosition(ZeroFilled(calc.args))

\* The fixed adjustment of top in the container branch (lines 147, 157).
ContainerTopAdjust(direction) ==
  CASE direction = DIRECTION_LEFT -> -Px(LeftAdjust)
    [] direction = DIRECTION_RIGHT -> Px(RightAdjust)
    [] OTHER -> 0

\* C4: with a container that is not static at (cx, cy) the result is that of
\* the same call without a container shifted by -cx and -cy, top further by
\* -9 for direction left and +3 for direction right; with a static container
\* the result does not depend on container.rect.
C4_ContainerShift ==
  (calc.op = "container" /\ NoNullArgs(calc.args))
  => /\ (/\ calc.prevArgs.container = Undefined
         /\ calc.args.container.position # "static")
        => /\ calc.prevRet.t = "position"
           /\ calc.ret.t = "position"
           /\ calc.ret.left = calc.prevRet.left - Px(calc.args.container.rect.left)
           /\ calc.ret.top = calc.prevRet.top - Px(calc.args.container.rect.top)
                               + ContainerTopAdjust(DirectionOf(calc.args))
     /\ (/\ calc.prevArgs.container # Undefined
         /\ calc.prevArgs.container.position = "static"
         /\ calc.args.container # Undefined
         /\ calc.args.container.position = "static")
        => calc.ret = calc.prevRet

\* C7: increasing scrollX by D increases the returned left by D and leaves
\* top unchanged, increasing scrollY by D increases the returned top by D and
\* leaves left unchanged, for every direction, with and without a container.
C7_ScrollAdditive ==
  (calc.op \in {"scrollX", "scrollY"} /\ NoNullArgs(calc.args))
  => /\ calc.prevRet.t = "position"
     /\ calc.ret.t = "position"
     /\ calc.ret.left - calc.prevRet.left
          = (IF calc.op = "scrollX" THEN Px(calc.delta) ELSE 0)
     /\ calc.ret.top - calc.prevRet.top
          = (IF calc.op = "scrollY" THEN Px(calc.delta) ELSE 0)

(***************************************************************************)
(* Properties of hasChangeInOffset (checked under SpecCmp)                 *)
(***************************************************************************)
IsPrimitive(v) == v.t \in {"undefined", "null", "number", "string", "boolean"}
IsPlainObject(v) == v.t = "object"
SameTopAndLeft(a, b) == a.top = b.top /\ a.left = b.left

Measurable(menuSize) == menuSize.width > 0 /\ menuSize.height > 0
\* The last handler ran a pass that got as far as measuring the menu body.
PassMeasured(h) == h.pass \in {"skipped", "setState"}

\* C6: a pass that measures a menu body of width 0 or height 0 while the
\* resolved offset is not null calls no setState: it leaves the queued
\* update and state.floatingPosition as it found them.
C6_UnmeasurableKeepsPosition ==
  [][(/\ PassMeasured(hist')
      /\ ~Measurable(dom'.menuSize)
      /\ ~Falsy(ResolveOffset(props', dom')))
     => /\ hist'.pass = "skipped"
        /\ queued' = queued
        /\ floatingPosition' = floatingPosition]_vars

\* A pass skipped on a menu body of height 0 while a position computed
\* earlier is in the state.
C6_Witness ==
  /\ hist.pass = "skipped"
  /\ dom.menuSize = [width |-> 40, height |-> 0]
  /\ floatingPosition # Undefined
  /\ queued = NoResult

\* C8: while the menu body is mounted and measurable, every resize
\* notification, every props update that changes menuDirection and every
\* props update that changes the offset in effect (the value of menuOffset or
\* what a menuOffset callback returns) is followed by a recomputation of the
\* floating position from the current measurements.
C8_EveryChangeRecomputes ==
  [][(/\ menuBody' # Null
      /\ Measurable(dom'.menuSize)
      /\ \/ hist'.event = "resize"
         \/ /\ hist'.event = "parentRender"
            /\ \/ props'.menuDirection # props.menuDirection
               \/ ResolveOffset(props', dom') # ResolveOffset(props, dom')
      /\ hist' # hist)
     => /\ hist'.pass = "setState"
        /\ queued' = getFloatingPosition(FloatingPositionArgs(props', dom'))]_vars

\* C9: onPlace is called at most once per mounting of the menu body, only
\* while the menu body is mounted, and only after a floating position has
\* been computed for that mounting.
C9_PlacedOncePositioned ==
  /\ hist.placed <= 1
  /\ hist.onPlace => (menuBody # Null /\ hist.computed)

\* C10: a pass calls no setState when (a) the menu body is not measurable or
\* (b) menuOffset, given as a callback, returns undefined.
C10_SkipConditions ==
  (/\ PassMeasured(hist)
   /\ \/ ~Measurable(dom.menuSize)
      \/ (TypeOf(props.menuOffset) = "function"
          /\ ResolveOffset(props, dom) = Undefined))
  => hist.pass = "skipped"

(***************************************************************************)
(* The update cycle                                                        *)
(***************************************************************************)
\* The step is a componentDidUpdate whose previous props are the current
\* props: the render that flushes a state update, or a render by the parent
\* with the props it gave before.
SamePropsUpdate ==
  /\ hist'.event \in {"flushState", "parentRender"}
  /\ props' = props

\* C11: a componentDidUpdate whose previous props equal the current props
\* (same menuDirection, same menuOffset, same getViewport) calls no
\* setState: its pass stops at the change test or for want of a menu body,
\* and the update queue is empty after it.  So the render that flushes the
\* update queued by a props change, a resize or a ref callback is never
\* followed by another flush: one recomputation for each event, and the
\* chain setState -> componentDidUpdate -> _updateMenuSize ends there.
C11_Quiesces ==
  [][/\ SamePropsUpdate =>
          /\ hist'.pass \in {"unchanged", "noBody"}
          /\ queued' = NoResult
     /\ hist.event = "flushState" => hist'.event # "flushState"]_vars

\* The flush of a recomputed position has run with a measurable menu body
\* mounted, and its componentDidUpdate stopped at the change test.
C11_Witness ==
  /\ hist.event = "flushState"
  /\ hist.pass = "unchanged"
  /\ menuBody # Null
  /\ Measurable(dom.menuSize)
  /\ floatingPosition # Undefined
  /\ queued = NoResult

====
